---- MODULE Spec2Model ----
(***************************************************************************)
(* The "coin timer" platformer core (InteractableCoinGame/game/core.py):   *)
(* reset and step, as a state machine.                                     *)
(*                                                                         *)
(* Number representation.  The code computes in floats with dt = 1/60.     *)
(* Here every velocity is an integer count of 1/100 pixel per second       *)
(* (VSub units per pixel/second), every length an integer count of 1/6000  *)
(* pixel (Sub = Hz * VSub units per pixel), and every time an integer      *)
(* count of timesteps, so that                                             *)
(*     x += vx * dt          is   x' = x + vx           (exact)            *)
(*     vy += gravity * dt    is   vy' = vy + 2500       (exact)            *)
(*     vx += accel * dt      is   vx' = vx +- 5000/2500 (exact)            *)
(*     time_left -= dt       is   time_left' = time_left - 1               *)
(* The one inexact operation is the friction product vx * 0.85, which is   *)
(* rounded toward zero to 1/100 pixel per second.                          *)
(***************************************************************************)
EXTENDS Integers, Sequences, FiniteSets

\* Action constants (core.py:12-15)
NOOP == 0
LEFT == 1
RIGHT == 2
JUMP == 3

\* 1/dt: timesteps per second (core.py:28)
Hz == 60

\* velocity units per pixel/second: the two decimals of ground_friction
\* (core.py:37)
VSub == 100

\* length units per pixel: a velocity unit times dt is one length unit
Sub == Hz * VSub

\* coin footprint, pixels (core.py:275)
coin_size == 16

\* ------------------------------------------------------------------ bounds
\* steps explored per episode
MaxSteps == 50

\* steps explored per episode of the longer episodes
MaxLongSteps == 150

\* the largest maze width and height explored
MaxMazeSize == 5

\* ------------------------------------------------------------- data model
\* Config (core.py:18-41).  Lengths in pixels, velocities in pixels/second,
\* accelerations in pixels/second^2, ground_friction in percent, and
\* timer_budget in timesteps (10.0 s / dt = 600).
DefaultConfig ==
    [ W |-> 640, H |-> 360, gravity |-> 1500, death_y |-> 410,
      agent_size_w |-> 24, agent_size_h |-> 32,
      ax_ground |-> 3000, ax_air |-> 1500, vx_max |-> 250,
      jump_impulse |-> -500, ground_friction |-> 85,
      timer_budget |-> 600, coins_to_win |-> 10 ]

\* A second configuration a caller may pass to reset: one coin wins, half a
\* second per coin, and a death line above the floor.
ShortConfig ==
    [DefaultConfig EXCEPT !.coins_to_win = 1, !.timer_budget = 30, !.death_y = 280]

Configs == {DefaultConfig, ShortConfig}

\* _platform_tops with the middle floor segment 14 wide instead of 214: a gap
\* in the floor from x = 227 to x = 427
platform_tops_FloorGap(c) ==
    << <<0, 320, 213, 40>>,
       <<213, 320, 14, 40>>,
       <<427, 320, 213, 40>>,
       <<200, 240, 240, 15>>,
       <<0, 160, 200, 15>>,
       <<440, 160, 200, 15>> >>

\* _platform_tops (core.py:72-90): (x, y, width, height) in pixels, table order
platform_tops(c) ==
    << <<0, 320, 213, 40>>,
       <<213, 320, 214, 40>>,
       <<427, 320, 213, 40>>,
       <<200, 240, 240, 15>>,
       <<0, 160, 200, 15>>,
       <<440, 160, 200, 15>> >>

\* range(len(platforms)), 0-based as in the code
PlatformIndices(c) == 0 .. (Len(platform_tops(c)) - 1)

\* platforms[i] for a 0-based index i
PlatformAt(c, i) == platform_tops(c)[i + 1]

\* the action lists a caller passes to step: each single action, and lists of
\* simultaneous actions (core.py:167, 199)
ActionLists ==
    { <<NOOP>>, <<LEFT>>, <<RIGHT>>, <<JUMP>>,
      <<LEFT, JUMP>>, <<RIGHT, JUMP, JUMP>> }

\* ------------------------------------------------------------ arithmetic
\* integer quotient rounded toward zero
TruncDiv(a, b) == IF a >= 0 THEN a \div b ELSE -((-a) \div b)

\* clip that bounds from above only
clip_UpperOnly(v, lo, hi) == IF v > hi THEN hi ELSE v

\* np.clip (core.py:217)
clip(v, lo, hi) == IF v < lo THEN lo ELSE IF v > hi THEN hi ELSE v

\* _rects_intersect (core.py:103-110): strict overlap on both axes
rects_intersect(ax, ay, aw, ah, bx, by, bw, bh) ==
    /\ ax < bx + bw
    /\ ax + aw > bx
    /\ ay < by + bh
    /\ ay + ah > by

\* the agent's rectangle against platform p (pixels), in length units
AgentHitsPlatform(c, a, p) ==
    rects_intersect(a.x, a.y, c.agent_size_w * Sub, c.agent_size_h * Sub,
                    p[1] * Sub, p[2] * Sub, p[3] * Sub, p[4] * Sub)

\* _sample_coin_spawn without the exclusion of the last spawn index
sample_coin_spawn_NoExclusion(c, last_spawn) ==
    PlatformIndices(c)

\* available_indices (core.py:99): the platform indices other than
\* last_spawn, ascending
available_indices(c, last_spawn) ==
    LET keep(i) == i # last_spawn
    IN  SelectSeq([k \in 1 .. Len(platform_tops(c)) |-> k - 1], keep)

\* _sample_coin_spawn (core.py:93-100): the values rng.choice can return
sample_coin_spawn(c, last_spawn) ==
    {available_indices(c, last_spawn)[k] :
        k \in 1 .. Len(available_indices(c, last_spawn))}

\* the coin anchored to platform index i (core.py:142-146, 287-289)
CoinOn(c, i) ==
    LET p == PlatformAt(c, i)
    IN  [ x |-> (p[1] + (p[3] \div 2) - 8) * Sub,
          y |-> (p[2] - 20) * Sub,
          spawn_index |-> i ]

\* reset with the agent's left edge, not its centre, put on the arena centre
reset_NoHalfWidth(c, spawn_idx) ==
    [ agent |-> [ x |-> (c.W \div 2) * Sub,
                  y |-> (320 - c.agent_size_h) * Sub,
                  vx |-> 0, vy |-> 0, grounded |-> TRUE ],
      coin |-> CoinOn(c, spawn_idx),
      coins_collected |-> 0,
      time_left |-> c.timer_budget,
      last_coin_spawn_index |-> spawn_idx ]

\* --------------------------------------------------------------- reset
\* reset (core.py:113-157); spawn_idx is what rng.choice(len(platforms))
\* returned for the seed
reset(c, spawn_idx) ==
    [ agent |-> [ x |-> ((c.W \div 2) - (c.agent_size_w \div 2)) * Sub,
                  y |-> (320 - c.agent_size_h) * Sub,
                  vx |-> 0, vy |-> 0, grounded |-> TRUE ],
      coin |-> CoinOn(c, spawn_idx),
      coins_collected |-> 0,
      time_left |-> c.timer_budget,
      last_coin_spawn_index |-> spawn_idx ]

\* ---------------------------------------------------------------- step
\* INPUT PROCESSING loop (core.py:202-210): vx after the actions from the
\* i-th on; the acceleration is chosen by the input state's grounded flag
RECURSIVE InputVx(_, _, _, _, _)
InputVx(c, grounded, vx, actions, i) ==
    IF i > Len(actions) THEN vx
    ELSE LET accel == IF grounded THEN c.ax_ground ELSE c.ax_air
             dv == (accel * VSub) \div Hz
         IN  IF actions[i] = LEFT THEN InputVx(c, grounded, vx - dv, actions, i + 1)
             ELSE IF actions[i] = RIGHT THEN InputVx(c, grounded, vx + dv, actions, i + 1)
             ELSE InputVx(c, grounded, vx, actions, i + 1)

\* horizontal_input (core.py:200-210)
horizontal_input(actions) ==
    \E i \in 1 .. Len(actions) : actions[i] \in {LEFT, RIGHT}

\* ground friction (core.py:213-214): vx *= 0.85, rounded toward zero
Friction(c, a, actions, vx) ==
    IF a.grounded /\ ~horizontal_input(actions)
    THEN TruncDiv(vx * c.ground_friction, 100)
    ELSE vx

\* screen boundary collision (core.py:224-229)
BoundaryClamp(c, a) ==
    IF a.x < 0 THEN [a EXCEPT !.x = 0, !.vx = 0]
    ELSE IF a.x > (c.W - c.agent_size_w) * Sub
         THEN [a EXCEPT !.x = (c.W - c.agent_size_w) * Sub, !.vx = 0]
         ELSE a

\* PushOutX with the sign of the platform width slipped in the leftward
\* branch: platform[0] - platform[2]
PushOutX_SignSlip(c, a, p) ==
    IF AgentHitsPlatform(c, a, p)
    THEN IF a.vx > 0
         THEN [a EXCEPT !.x = (p[1] - c.agent_size_w) * Sub, !.vx = 0]
         ELSE [a EXCEPT !.x = (p[1] - p[3]) * Sub, !.vx = 0]
    ELSE a

\* one platform of the horizontal collision loop (core.py:234-241)
PushOutX(c, a, p) ==
    IF AgentHitsPlatform(c, a, p)
    THEN IF a.vx > 0
         THEN [a EXCEPT !.x = (p[1] - c.agent_size_w) * Sub, !.vx = 0]
         ELSE [a EXCEPT !.x = (p[1] + p[3]) * Sub, !.vx = 0]
    ELSE a

\* the horizontal collision loop from platform i on, in table order
RECURSIVE ResolveHorizontal(_, _, _)
ResolveHorizontal(c, a, i) ==
    IF i > Len(platform_tops(c)) THEN a
    ELSE ResolveHorizontal(c, PushOutX(c, a, platform_tops(c)[i]), i + 1)

\* INPUT PROCESSING and HORIZONTAL MOVEMENT & COLLISION (core.py:198-241)
HorizontalPhase(c, a, actions) ==
    LET v1 == InputVx(c, a.grounded, a.vx, actions, 1)
        v2 == Friction(c, a, actions, v1)
        v3 == clip(v2, -c.vx_max * VSub, c.vx_max * VSub)
        moved == [a EXCEPT !.vx = v3, !.x = a.x + v3]
    IN  ResolveHorizontal(c, BoundaryClamp(c, moved), 1)

\* the jump loop (core.py:248-251)
jump_requested(actions) ==
    \E i \in 1 .. Len(actions) : actions[i] = JUMP

\* GravityJumpMove with the jump not conditioned on the grounded flag
GravityJumpMove_AirJump(c, a, actions) ==
    LET g == a.vy + ((c.gravity * VSub) \div Hz)
        vy1 == IF jump_requested(actions) THEN c.jump_impulse * VSub ELSE g
    IN  [a EXCEPT !.vy = vy1, !.grounded = FALSE, !.y = a.y + vy1]

\* GravityJumpMove without the reset of the grounded flag
GravityJumpMove_KeepsGrounded(c, a, actions) ==
    LET g == a.vy + ((c.gravity * VSub) \div Hz)
        vy1 == IF jump_requested(actions) /\ a.grounded
               THEN c.jump_impulse * VSub ELSE g
    IN  [a EXCEPT !.vy = vy1, !.y = a.y + vy1]

\* GRAVITY & JUMPING, grounded reset and vertical move (core.py:243-258)
GravityJumpMove(c, a, actions) ==
    LET g == a.vy + ((c.gravity * VSub) \div Hz)
        vy1 == IF jump_requested(actions) /\ a.grounded
               THEN c.jump_impulse * VSub ELSE g
    IN  [a EXCEPT !.vy = vy1, !.grounded = FALSE, !.y = a.y + vy1]

\* PushOutY that resolves a collision only for an agent moving down
PushOutY_LandingOnly(c, a, p) ==
    IF AgentHitsPlatform(c, a, p) /\ a.vy > 0
    THEN [a EXCEPT !.y = (p[2] - c.agent_size_h) * Sub, !.vy = 0, !.grounded = TRUE]
    ELSE a

\* one platform of the vertical collision loop (core.py:262-271)
PushOutY(c, a, p) ==
    IF AgentHitsPlatform(c, a, p)
    THEN IF a.vy > 0
         THEN [a EXCEPT !.y = (p[2] - c.agent_size_h) * Sub, !.vy = 0, !.grounded = TRUE]
         ELSE [a EXCEPT !.y = (p[2] + p[4]) * Sub, !.vy = 0]
    ELSE a

\* the vertical collision loop from platform i on, in table order
RECURSIVE ResolveVertical(_, _, _)
ResolveVertical(c, a, i) ==
    IF i > Len(platform_tops(c)) THEN a
    ELSE ResolveVertical(c, PushOutY(c, a, platform_tops(c)[i]), i + 1)

\* GRAVITY & JUMPING and VERTICAL MOVEMENT & COLLISION (core.py:243-271)
VerticalPhase(c, a, actions) ==
    ResolveVertical(c, GravityJumpMove(c, a, actions), 1)

\* the agent after all movement of a step (core.py:198-271)
MoveAgent(c, a, actions) ==
    VerticalPhase(c, HorizontalPhase(c, a, actions), actions)

\* the pickup test (core.py:275-277)
TouchesCoin(c, a, coin) ==
    rects_intersect(a.x, a.y, c.agent_size_w * Sub, c.agent_size_h * Sub,
                    coin.x, coin.y, coin_size * Sub, coin_size * Sub)

\* FailOf with the fall check made before the timeout check
FailOf_FallFirst(c, time_left, a) ==
    IF a.y >= c.death_y * Sub THEN "fall"
    ELSE IF time_left <= 0 THEN "timeout"
    ELSE "None"

\* the fail conditions (core.py:297-301)
FailOf(c, time_left, a) ==
    IF time_left <= 0 THEN "timeout"
    ELSE IF a.y >= c.death_y * Sub THEN "fall"
    ELSE "None"

\* WinOf with a strict comparison
WinOf_Strict(c, coins_collected) == coins_collected > c.coins_to_win

\* the win condition (core.py:293-295)
WinOf(c, coins_collected) == coins_collected >= c.coins_to_win

\* Settle with the timer decrement applied after the pickup reset
Settle_DecayAfterReset(c, s, a, draw) ==
    LET pickup == TouchesCoin(c, a, s.coin)
        coins == IF pickup THEN s.coins_collected + 1 ELSE s.coins_collected
        time == IF pickup THEN c.timer_budget - 1 ELSE s.time_left - 1
    IN  [ state |-> [ agent |-> a,
                      coin |-> IF pickup THEN CoinOn(c, draw) ELSE s.coin,
                      coins_collected |-> coins,
                      time_left |-> time,
                      last_coin_spawn_index |->
                          IF pickup THEN draw ELSE s.last_coin_spawn_index ],
          events |-> [ pickup |-> pickup,
                       win |-> WinOf(c, coins),
                       fail |-> FailOf(c, time, a) ] ]

\* Settle with the timer stopped at zero instead of running on
Settle_TimerStopsAtZero(c, s, a, draw) ==
    LET pickup == TouchesCoin(c, a, s.coin)
        coins == IF pickup THEN s.coins_collected + 1 ELSE s.coins_collected
        time == IF pickup THEN c.timer_budget
                ELSE IF s.time_left <= 0 THEN s.time_left ELSE s.time_left - 1
    IN  [ state |-> [ agent |-> a,
                      coin |-> IF pickup THEN CoinOn(c, draw) ELSE s.coin,
                      coins_collected |-> coins,
                      time_left |-> time,
                      last_coin_spawn_index |->
                          IF pickup THEN draw ELSE s.last_coin_spawn_index ],
          events |-> [ pickup |-> pickup,
                       win |-> WinOf(c, coins),
                       fail |-> FailOf(c, time, a) ] ]

\* Settle with a pickup adding timer_budget to the time left instead of
\* setting it
Settle_TimerAccumulates(c, s, a, draw) ==
    LET pickup == TouchesCoin(c, a, s.coin)
        coins == IF pickup THEN s.coins_collected + 1 ELSE s.coins_collected
        time == IF pickup THEN s.time_left - 1 + c.timer_budget
                ELSE s.time_left - 1
    IN  [ state |-> [ agent |-> a,
                      coin |-> IF pickup THEN CoinOn(c, draw) ELSE s.coin,
                      coins_collected |-> coins,
                      time_left |-> time,
                      last_coin_spawn_index |->
                          IF pickup THEN draw ELSE s.last_coin_spawn_index ],
          events |-> [ pickup |-> pickup,
                       win |-> WinOf(c, coins),
                       fail |-> FailOf(c, time, a) ] ]

\* Settle with precedence between the two outcomes: a step that reports win
\* reports no fail
Settle_WinSilencesFail(c, s, a, draw) ==
    LET pickup == TouchesCoin(c, a, s.coin)
        coins == IF pickup THEN s.coins_collected + 1 ELSE s.coins_collected
        time == IF pickup THEN c.timer_budget ELSE s.time_left - 1
    IN  [ state |-> [ agent |-> a,
                      coin |-> IF pickup THEN CoinOn(c, draw) ELSE s.coin,
                      coins_collected |-> coins,
                      time_left |-> time,
                      last_coin_spawn_index |->
                          IF pickup THEN draw ELSE s.last_coin_spawn_index ],
          events |-> [ pickup |-> pickup,
                       win |-> WinOf(c, coins),
                       fail |-> IF WinOf(c, coins) THEN "None"
                                ELSE FailOf(c, time, a) ] ]

\* COIN PICKUP LOGIC and TIMER & TERMINATION LOGIC (core.py:188-194,
\* 273-303) for the agent a that the movement of the step produced; draw is
\* the value rng.choice returns if a new coin is sampled
Settle(c, s, a, draw) ==
    LET pickup == TouchesCoin(c, a, s.coin)
        coins == IF pickup THEN s.coins_collected + 1 ELSE s.coins_collected
        time == IF pickup THEN c.timer_budget ELSE s.time_left - 1
    IN  [ state |-> [ agent |-> a,
                      coin |-> IF pickup THEN CoinOn(c, draw) ELSE s.coin,
                      coins_collected |-> coins,
                      time_left |-> time,
                      last_coin_spawn_index |->
                          IF pickup THEN draw ELSE s.last_coin_spawn_index ],
          events |-> [ pickup |-> pickup,
                       win |-> WinOf(c, coins),
                       fail |-> FailOf(c, time, a) ] ]

\* step (core.py:160-303): the returned state and event record
step(c, s, actions, draw) ==
    Settle(c, s, MoveAgent(c, s.agent, actions), draw)

\* the values rng.choice can return in a step that moved the agent to a
\* (core.py:276-284); a step without a pickup draws nothing
StepDraws(c, s, a) ==
    IF TouchesCoin(c, a, s.coin)
    THEN sample_coin_spawn(c, s.last_coin_spawn_index)
    ELSE {s.last_coin_spawn_index}

\* ------------------------------------------------------------ the machine
VARIABLES
    cfg,        \* the Config the episode was reset with
    seed,       \* the seed it was reset with, named by the first value its
                \* generator makes rng.choice return
    st,         \* the current State
    events,     \* the event record of the last step (all clear after reset)
    actions,    \* the action list of the last step (empty after reset)
    rng,        \* how many values the episode's generator has returned
    steps,      \* steps made since reset
    switched,   \* whether the caller has changed its action list since reset
    twin,       \* a second run reset with the same Config and seed and
                \* stepped with the same action lists (SpecTwin only)
    tape,       \* the values the seed's generator returns after its first,
                \* as far as a run has drawn them (SpecTwin only)
    nopick,     \* how many steps in a row, up to now, reported no pickup
    game_over,      \* main's game_over flag (SpecDriver only)
    game_message,   \* main's game_message (SpecDriver only)
    running,        \* main's running flag (SpecDriver only)
    keys,           \* the keys held in the last frame, each named by the
                    \* action it maps to (SpecDriver only)
    width,      \* MazeGenerator.width (SpecMaze only)
    height,     \* MazeGenerator.height (SpecMaze only)
    maze,       \* MazeGenerator.maze: maze[y][x], 0 = wall, 1 = path
    stack,      \* the active calls of _recursive_backtrack, innermost last
    calls,      \* calls[y][x]: how often _recursive_backtrack(x, y) was
                \* called in the current generation
    mazepc      \* where generate_maze is: "idle", "running" or "done"

driverVars == <<game_over, game_message, running, keys>>

mazeVars == <<width, height, maze, stack, calls, mazepc>>

vars == <<cfg, seed, st, events, actions, rng, steps, switched, twin, tape,
          nopick, game_over, game_message, running, keys,
          width, height, maze, stack, calls, mazepc>>

\* events = {"pickup": False, "win": False, "fail": None} (core.py:196)
NoEvents == [pickup |-> FALSE, win |-> FALSE, fail |-> "None"]

\* seeds, each named by the first value default_rng(seed).choice(6) returns
Seeds == PlatformIndices(DefaultConfig)

\* no second run
NoTwin == [st |-> <<>>, events |-> NoEvents, rng |-> 0]

\* state, rng = reset(cfg, seed) (core.py:113-157, main.py:28)
InitRun ==
    /\ cfg \in Configs
    /\ seed \in Seeds
    /\ st = reset(cfg, seed)
    /\ events = NoEvents
    /\ actions = <<>>
    /\ rng = 1
    /\ steps = 0
    /\ switched = FALSE
    /\ nopick = 0

\* no driver loop: the engine is called directly
NoDriver ==
    /\ game_over = FALSE
    /\ game_message = "None"
    /\ running = FALSE
    /\ keys = {}

\* no MazeGenerator object
NoMaze ==
    /\ width = 0
    /\ height = 0
    /\ maze = <<>>
    /\ stack = <<>>
    /\ calls = <<>>
    /\ mazepc = "none"

Init ==
    /\ InitRun
    /\ twin = NoTwin
    /\ tape = <<>>
    /\ NoDriver
    /\ NoMaze

\* an episode that reported win or fail is restarted with the same Config
\* and seed (main.py:42-46, 61-69)
Reset ==
    /\ events.win \/ events.fail # "None"
    /\ st' = reset(cfg, seed)
    /\ events' = NoEvents
    /\ actions' = <<>>
    /\ rng' = 1
    /\ steps' = 0
    /\ switched' = FALSE
    /\ nopick' = 0
    /\ UNCHANGED <<cfg, seed, twin, tape, driverVars, mazeVars>>

\* state, events = step(cfg, state, actions, rng) (core.py:160-303) with any
\* value the generator may return.  The caller holds an action list of lists
\* from step to step and switches to another at most once in an episode, at
\* any step; bound is the number of steps explored.
StepWith(lists, bound) ==
    /\ steps < bound
    /\ \E acts \in lists :
         /\ (steps > 0 /\ acts # actions) => ~switched
         /\ \E a \in {MoveAgent(cfg, st.agent, acts)} :
              \E draw \in StepDraws(cfg, st, a) :
                \E r \in {Settle(cfg, st, a, draw)} :
                  /\ st' = r.state
                  /\ events' = r.events
                  /\ rng' = IF r.events.pickup THEN rng + 1 ELSE rng
                  /\ nopick' = IF r.events.pickup THEN 0 ELSE nopick + 1
         /\ actions' = acts
         /\ switched' = (switched \/ (steps > 0 /\ acts # actions))
    /\ steps' = steps + 1
    /\ UNCHANGED <<cfg, seed, twin, tape, driverVars, mazeVars>>

Step == StepWith(ActionLists, MaxSteps)

Next == Step \/ Reset

Spec == Init /\ [][Next]_vars

\* ------------------------------------------------- longer episodes
\* the action lists of the longer episodes: enough to leave the middle of
\* the floor, jump onto the raised platforms and walk or jump off them
LongLists == { <<NOOP>>, <<RIGHT>>, <<LEFT, JUMP>>, <<RIGHT, JUMP>> }

\* reset(Config(), seed) (core.py:113-157, test.py:4-5)
LongInit ==
    /\ Init
    /\ cfg = DefaultConfig

LongStep == StepWith(LongLists, MaxLongSteps)

LongNext == LongStep

SpecLong == LongInit /\ [][LongNext]_vars

\* GeneratorValue of a generator that is not made from the seed
GeneratorValue_Unseeded(t, n, fresh) == fresh

\* ----------------------------------------------------- two runs, one seed
\* np.random.default_rng(seed) (core.py:124-125): the n-th value a generator
\* made from the seed returns after its first is fixed by the seed; tape
\* holds the values already returned to a run, fresh is the value returned
\* when no run has drawn the n-th yet
GeneratorValue(t, n, fresh) ==
    IF n <= Len(t) THEN t[n] ELSE fresh

\* the tape after a run drew value v as its n-th
Drawn(t, n, v) == IF n <= Len(t) THEN t ELSE Append(t, v)

\* the offsets rng.choice(available_indices) can return in a step that moved
\* the agent to a; a step without a pickup draws nothing
FreshValues(c, s, a) ==
    IF TouchesCoin(c, a, s.coin)
    THEN 0 .. (Len(available_indices(c, s.last_coin_spawn_index)) - 1)
    ELSE {0}

\* COIN PICKUP LOGIC and TIMER & TERMINATION LOGIC (core.py:273-303) for a
\* run whose generator has returned n values and whose agent the step moved
\* to a: the result, the count of values returned and the tape afterwards
SettleWithGenerator(c, s, a, n, t, fresh) ==
    LET pickup == TouchesCoin(c, a, s.coin)
        v == GeneratorValue(t, n, fresh)
        draw == IF pickup
                THEN available_indices(c, s.last_coin_spawn_index)[v + 1]
                ELSE s.last_coin_spawn_index
        r == Settle(c, s, a, draw)
    IN  [ st |-> r.state,
          events |-> r.events,
          rng |-> IF pickup THEN n + 1 ELSE n,
          tape |-> IF pickup THEN Drawn(t, n, v) ELSE t ]

\* both runs are reset with the same Config and seed
TwinInit ==
    /\ InitRun
    /\ twin = [st |-> reset(cfg, seed), events |-> NoEvents, rng |-> 1]
    /\ tape = <<>>
    /\ NoDriver
    /\ NoMaze

\* both runs are stepped with the same action list, each with its own
\* generator
TwinStep ==
    /\ steps < MaxSteps
    /\ \E acts \in ActionLists :
         /\ (steps > 0 /\ acts # actions) => ~switched
         /\ \E a1 \in {MoveAgent(cfg, st.agent, acts)} :
            \E a2 \in {MoveAgent(cfg, twin.st.agent, acts)} :
              \E f1 \in FreshValues(cfg, st, a1) :
                \E r1 \in {SettleWithGenerator(cfg, st, a1, rng, tape, f1)} :
                  \E f2 \in FreshValues(cfg, twin.st, a2) :
                    \E r2 \in {SettleWithGenerator(cfg, twin.st, a2, twin.rng,
                                                  r1.tape, f2)} :
                      /\ st' = r1.st
                      /\ events' = r1.events
                      /\ rng' = r1.rng
                      /\ twin' = [st |-> r2.st, events |-> r2.events,
                                  rng |-> r2.rng]
                      /\ tape' = r2.tape
                      /\ nopick' = IF r1.events.pickup THEN 0 ELSE nopick + 1
         /\ actions' = acts
         /\ switched' = (switched \/ (steps > 0 /\ acts # actions))
    /\ steps' = steps + 1
    /\ UNCHANGED <<cfg, seed, driverVars, mazeVars>>

TwinNext == TwinStep

SpecTwin == TwinInit /\ [][TwinNext]_vars

\* ------------------------------------------------------ the maze generator
\* no game: the coin game's variables while the maze generator runs
NoGame ==
    /\ cfg = DefaultConfig
    /\ seed = 0
    /\ st = reset(DefaultConfig, 0)
    /\ events = NoEvents
    /\ actions = <<>>
    /\ rng = 0
    /\ steps = 0
    /\ switched = FALSE
    /\ nopick = 0
    /\ twin = NoTwin
    /\ tape = <<>>

gameVars == <<cfg, seed, st, events, actions, rng, steps, switched, nopick,
              twin, tape>>

\* the odd widths and heights explored, from 3 up
MazeSizes == {n \in 3 .. MaxMazeSize : n % 2 = 1}

\* a height x width grid of v, indexed [y][x] from 0 (MazeGen.py:210, 213)
Grid(w, h, v) == [y \in 0 .. (h - 1) |-> [x \in 0 .. (w - 1) |-> v]]

\* initialize_maze (MazeGen.py:201-213): all walls
initialize_maze(w, h) == Grid(w, h, 0)

\* "ensure dimensions are odd" (MazeGen.py:230-233)
EnsureOdd(n) == IF n % 2 = 0 THEN n + 1 ELSE n

\* the start coordinate made of the value r that random.randint(1, n - 2)
\* returned (MazeGen.py:236-242)
StartCoord(r, n) == IF r % 2 = 0 THEN (r + 1) % (n - 1) ELSE r

\* directions (MazeGen.py:308): (dx, dy), two cells at a time
directions == {<<0, 2>>, <<2, 0>>, <<0, -2>>, <<-2, 0>>}

\* CanCarve without the test that the new cell is still a wall
CanCarve_NoUnvisitedTest(w, h, m, new_x, new_y) ==
    /\ 0 <= new_x /\ new_x < w
    /\ 0 <= new_y /\ new_y < h

\* "new position is valid and unvisited" (MazeGen.py:316-318)
CanCarve(w, h, m, new_x, new_y) ==
    /\ 0 <= new_x /\ new_x < w
    /\ 0 <= new_y /\ new_y < h
    /\ m[new_y][new_x] = 0

\* the call _recursive_backtrack(x, y) on entry (MazeGen.py:305-309): the
\* shuffled directions are kept as the set of those the loop has not yet
\* reached; whichever of them the loop takes next is the shuffle's outcome
Call(x, y) == [x |-> x, y |-> y, directions |-> directions]

\* the innermost active call, and the calls below it
Top == stack[Len(stack)]
Below == SubSeq(stack, 1, Len(stack) - 1)

\* MazeGenerator(width, height) (MazeGen.py:29-68)
MazeInit ==
    /\ NoGame
    /\ NoDriver
    /\ width \in MazeSizes
    /\ height \in MazeSizes
    /\ maze = initialize_maze(width, height)
    /\ stack = <<>>
    /\ calls = Grid(width, height, 0)
    /\ mazepc = "idle"

\* generate_maze up to the first call of _recursive_backtrack
\* (MazeGen.py:227-245, 305-309); rx and ry are what random.randint returns
generate_maze ==
    /\ mazepc \in {"idle", "done"}
    /\ width' = EnsureOdd(width)
    /\ height' = EnsureOdd(height)
    /\ \E rx \in 1 .. (width' - 2), ry \in 1 .. (height' - 2) :
         \E start_x \in {StartCoord(rx, width')} :
           \E start_y \in {StartCoord(ry, height')} :
             /\ maze' = [initialize_maze(width, height)
                           EXCEPT ![start_y][start_x] = 1]
             /\ calls' = [Grid(width, height, 0)
                            EXCEPT ![start_y][start_x] = 1]
             /\ stack' = <<Call(start_x, start_y)>>
    /\ mazepc' = "running"
    /\ UNCHANGED <<gameVars, driverVars>>

\* one iteration of the loop over the shuffled directions in the innermost
\* call (MazeGen.py:312-325): either the wall is carved and
\* _recursive_backtrack is entered for the new cell, or the direction is
\* passed over
recursive_backtrack ==
    /\ mazepc = "running"
    /\ stack # <<>>
    /\ \E d \in Top.directions :
         \E new_x \in {Top.x + d[1]}, new_y \in {Top.y + d[2]} :
           \E rest \in {[Top EXCEPT !.directions = @ \ {d}]} :
             IF CanCarve(width, height, maze, new_x, new_y)
             THEN /\ maze' = [maze EXCEPT
                                ![Top.y + (d[2] \div 2)][Top.x + (d[1] \div 2)] = 1,
                                ![new_y][new_x] = 1]
                  /\ calls' = [calls EXCEPT ![new_y][new_x] = @ + 1]
                  /\ stack' = Below \o <<rest, Call(new_x, new_y)>>
             ELSE /\ stack' = Below \o <<rest>>
                  /\ UNCHANGED <<maze, calls>>
    /\ UNCHANGED <<width, height, mazepc, gameVars, driverVars>>

\* the innermost call has tried every direction and returns; when it is the
\* first call, generate_maze returns too (MazeGen.py:312, 245-248)
backtrack_return ==
    /\ mazepc = "running"
    /\ stack # <<>>
    /\ Top.directions = {}
    /\ stack' = Below
    /\ mazepc' = IF Len(stack) = 1 THEN "done" ELSE "running"
    /\ UNCHANGED <<width, height, maze, calls, gameVars, driverVars>>

MazeNext == generate_maze \/ recursive_backtrack \/ backtrack_return

\* a call of generate_maze, once made, runs on: nothing in the callback
\* waits.  Whether the button is pressed at all is up to the user.
SpecMaze ==
    MazeInit /\ [][MazeNext]_vars
             /\ WF_vars(recursive_backtrack \/ backtrack_return)

\* ------------------------------------------------------- the driver loop
\* main builds Config() (main.py:20).  The other two are Configs with
\* edited fields, with which an episode ends within MaxSteps frames:
\* BriefConfig by timeout, ShortConfig by a fall or a win.
BriefConfig == [DefaultConfig EXCEPT !.timer_budget = 30]

DriverConfigs == {DefaultConfig, BriefConfig, ShortConfig}

\* the sets of keys a player holds during a frame, each key named by the
\* action it maps to (render.py:30-41)
KeySets == { {}, {RIGHT}, {LEFT, JUMP}, {LEFT, RIGHT} }

\* get_actions_from_keys (render.py:19-43)
get_actions_from_keys(s, held) ==
    (IF LEFT \in held THEN <<LEFT>> ELSE <<>>)
      \o (IF RIGHT \in held THEN <<RIGHT>> ELSE <<>>)
      \o (IF JUMP \in held /\ s.agent.grounded THEN <<JUMP>> ELSE <<>>)

\* "always run physics step" (main.py:54-55)
ActionsOrNoop(acts) == IF acts = <<>> THEN <<NOOP>> ELSE acts

\* restart_requested with the restart not conditioned on game_over
restart_requested_AnyTime(r_down, over) == r_down

\* "restart on R key press" (main.py:41-42)
restart_requested(r_down, over) == r_down /\ over

\* game_message_of with the fail branch tested before the win branch
game_message_of_FailFirst(ev, old) ==
    IF ev.fail = "timeout" THEN "FAIL (timeout). Press R to restart."
    ELSE IF ev.fail = "fall" THEN "FAIL (fell). Press R to restart."
    ELSE IF ev.win THEN "WIN! Press R to restart."
    ELSE old

\* game_message after "handle game events" (main.py:61-69)
game_message_of(ev, old) ==
    IF ev.win THEN "WIN! Press R to restart."
    ELSE IF ev.fail = "timeout" THEN "FAIL (timeout). Press R to restart."
    ELSE IF ev.fail = "fall" THEN "FAIL (fell). Press R to restart."
    ELSE old

\* game_over after "handle game events" (main.py:61-69)
game_over_of(ev, old) == IF ev.win \/ ev.fail # "None" THEN TRUE ELSE old

\* main up to the loop (main.py:20-33); seed 0 is named, like every seed, by
\* the first value its generator returns
DriverInit ==
    /\ cfg \in DriverConfigs
    /\ seed \in Seeds
    /\ st = reset(cfg, seed)
    /\ events = NoEvents
    /\ actions = <<>>
    /\ rng = 1
    /\ steps = 0
    /\ switched = FALSE
    /\ nopick = 0
    /\ game_message = "None"
    /\ game_over = FALSE
    /\ running = TRUE
    /\ keys = {}
    /\ twin = NoTwin
    /\ tape = <<>>
    /\ NoMaze

\* one pass of the main loop (main.py:34-76): the event queue holds a QUIT
\* (quit), a KEYDOWN of R (r_down), both or neither; then the game logic.
\* The player holds one set of keys from frame to frame and changes it at
\* most once in an episode.
Frame(quit, r_down) ==
    /\ running
    /\ running' = ~quit
    /\ \E restart \in {restart_requested(r_down, game_over)} :
         IF game_over /\ ~restart
         THEN UNCHANGED <<st, events, actions, rng, steps, switched, nopick,
                          keys, game_over, game_message>>
         ELSE \E s1 \in {IF restart THEN reset(cfg, seed) ELSE st} :
              \E n1 \in {IF restart THEN 0 ELSE steps} :
                /\ n1 < MaxSteps
                /\ steps' = n1 + 1
                /\ \E held \in KeySets :
                     /\ keys' = held
                     /\ (n1 > 0 /\ held # keys) => ~switched
                     /\ switched' = (n1 > 0 /\ (switched \/ held # keys))
                     /\ actions' = ActionsOrNoop(get_actions_from_keys(s1, held))
                     /\ \E a \in {MoveAgent(cfg, s1.agent, actions')} :
                          \E draw \in StepDraws(cfg, s1, a) :
                            \E r \in {Settle(cfg, s1, a, draw)} :
                              /\ st' = r.state
                              /\ events' = r.events
                              /\ rng' = (IF restart THEN 1 ELSE rng)
                                          + (IF r.events.pickup THEN 1 ELSE 0)
                              /\ nopick' = IF r.events.pickup THEN 0
                                           ELSE (IF restart THEN 0 ELSE nopick) + 1
                              /\ game_message' =
                                   game_message_of(r.events,
                                     IF restart THEN "None" ELSE game_message)
                              /\ game_over' = game_over_of(r.events, FALSE)
    /\ UNCHANGED <<cfg, seed, twin, tape, mazeVars>>

DriverNext == \E quit \in BOOLEAN, r_down \in BOOLEAN : Frame(quit, r_down)

SpecDriver == DriverInit /\ [][DriverNext]_vars

\* a step was made: Step counts it, Reset clears the count
StepTaken == steps' = steps + 1

\* ---------------------------------------------------------------- claims

AgainstSideOf(p) ==
    /\ st.agent.y < (p[2] + p[4]) * Sub
    /\ st.agent.y + cfg.agent_size_h * Sub > p[2] * Sub
    /\ st.agent.vx = 0
    /\ \/ st.agent.x = (p[1] + p[3]) * Sub
       \/ st.agent.x + cfg.agent_size_w * Sub = p[1] * Sub

C2_AntiRepeat ==
    [][(StepTaken /\ events'.pickup)
         => st'.coin.spawn_index # st.coin.spawn_index]_vars

\* a pickup that is not the first of its episode
C2_Witness ==
    /\ events.pickup
    /\ st.coins_collected >= 2

\* the agent's rectangle a strictly overlaps the 16x16 rectangle of coin
StrictlyOverlapsCoin(a, coin) ==
    /\ a.x < coin.x + 16 * Sub
    /\ coin.x < a.x + cfg.agent_size_w * Sub
    /\ a.y < coin.y + 16 * Sub
    /\ coin.y < a.y + cfg.agent_size_h * Sub

\* C3: a step reports pickup exactly when the agent's rectangle after the
\* step's movement strictly overlaps the input state's coin; then
\* coins_collected grows by exactly 1 and time_left is timer_budget exactly;
\* on every other step coins_collected is unchanged.
C3_PickupEffect ==
    [][StepTaken =>
         /\ events'.pickup <=> StrictlyOverlapsCoin(st'.agent, st.coin)
         /\ events'.pickup =>
              /\ st'.coins_collected = st.coins_collected + 1
              /\ st'.time_left = cfg.timer_budget
         /\ ~events'.pickup => st'.coins_collected = st.coins_collected]_vars

\* a pickup made after the timer had run down from its budget
C3_Witness ==
    /\ events.pickup
    /\ steps > st.coins_collected
    /\ st.time_left = cfg.timer_budget

\* C4: the event record of every step has win = true if and only if
\* coins_collected of the returned state is >= coins_to_win, and
\* coins_collected never decreases from step to step, so that win stays
\* true once reported.
C4_WinThreshold ==
    /\ [](steps > 0 => (events.win <=> st.coins_collected >= cfg.coins_to_win))
    /\ [][StepTaken => st'.coins_collected >= st.coins_collected]_vars
    /\ [][(StepTaken /\ events.win) => events'.win]_vars

\* a step made after the winning pickup still reports win
C4_Witness ==
    /\ events.win
    /\ ~events.pickup
    /\ st.coins_collected = cfg.coins_to_win

\* C5: fail = "timeout" iff the returned time_left <= 0; fail = "fall" iff
\* time_left > 0 and the agent's y >= death_y; otherwise None.  Timeout wins
\* when both hold, and a step that reports pickup never reports timeout.
C5_FailCheck ==
    steps > 0 =>
      /\ events.fail = "timeout" <=> st.time_left <= 0
      /\ events.fail = "fall" <=>
           (st.time_left > 0 /\ st.agent.y >= cfg.death_y * Sub)
      /\ events.fail \in {"timeout", "fall", "None"}
      /\ events.pickup => events.fail # "timeout"

\* both fail conditions hold and the record says timeout
C5_Witness ==
    /\ steps > 0
    /\ st.time_left <= 0
    /\ st.agent.y >= cfg.death_y * Sub
    /\ events.fail = "timeout"

\* C6: on every step that does not report pickup the returned time_left is
\* the input time_left minus one timestep, whatever the actions and the
\* outcome, also in states already won or failed.
C6_TimerDecay ==
    [][(StepTaken /\ ~events'.pickup) => st'.time_left = st.time_left - 1]_vars

\* the timer ran on below zero in an episode that had already won and failed
C6_Witness ==
    /\ events.win
    /\ events.fail = "timeout"
    /\ st.time_left < -1

\* C7: reset returns the agent at x = 308, y = 288, at rest and grounded,
\* coins_collected = 0, time_left = timer_budget, and a coin whose
\* spawn_index is one of the 6 platform indices, at x = platform.x +
\* platform.width // 2 - 8 and y = platform.y - 20 of that platform.
C7_Reset ==
    steps = 0 =>
      /\ st.agent = [x |-> 308 * Sub, y |-> 288 * Sub, vx |-> 0, vy |-> 0,
                     grounded |-> TRUE]
      /\ st.coins_collected = 0
      /\ st.time_left = cfg.timer_budget
      /\ st.coin.spawn_index \in 0 .. 5
      /\ \E p \in {platform_tops(cfg)[st.coin.spawn_index + 1]} :
           /\ st.coin.x = (p[1] + (p[3] \div 2) - 8) * Sub
           /\ st.coin.y = (p[2] - 20) * Sub

\* the default Config reset with a seed whose first draw is the last
\* platform index
C7_Witness ==
    /\ steps = 0
    /\ cfg = DefaultConfig
    /\ st.coin.spawn_index = 5
    /\ st.coin.x = 532 * Sub
    /\ st.coin.y = 140 * Sub

\* the list acts holds a JUMP
HoldsJump(acts) == \E i \in DOMAIN acts : acts[i] = JUMP

\* the agent a rests on the top of a platform its x range overlaps
OnTopOfSomePlatform(a) ==
    \E i \in 0 .. 5 :
      \E p \in {platform_tops(cfg)[i + 1]} :
        /\ a.y + cfg.agent_size_h * Sub = p[2] * Sub
        /\ a.x < (p[1] + p[3]) * Sub
        /\ a.x + cfg.agent_size_w * Sub > p[1] * Sub

\* C8: a step whose list holds JUMP and whose input state is grounded returns
\* vy = jump_impulse exactly and grounded = false, however many JUMP entries
\* the list has; a step returns grounded = true only when the agent was
\* moving downward (vy > 0 after gravity, no jump) and came to rest on the
\* top of a platform; a JUMP in a step whose input state is not grounded
\* applies no impulse (vy is the input vy plus gravity * dt, or 0 after a
\* collision).
C8_Jump ==
    [][StepTaken =>
         /\ (HoldsJump(actions') /\ st.agent.grounded) =>
              /\ st'.agent.vy = cfg.jump_impulse * VSub
              /\ ~st'.agent.grounded
         /\ st'.agent.grounded =>
              /\ ~(HoldsJump(actions') /\ st.agent.grounded)
              /\ st.agent.vy + ((cfg.gravity * VSub) \div Hz) > 0
              /\ st'.agent.vy = 0
              /\ OnTopOfSomePlatform(st'.agent)
         /\ (HoldsJump(actions') /\ ~st.agent.grounded) =>
              st'.agent.vy \in
                {st.agent.vy + ((cfg.gravity * VSub) \div Hz), 0}]_vars

\* a list with two JUMP entries held since reset: the agent jumped on the
\* first step, kept requesting JUMP in the air, and has landed again
C8_Witness ==
    /\ cfg = DefaultConfig
    /\ actions = <<RIGHT, JUMP, JUMP>>
    /\ ~switched
    /\ steps > 1
    /\ st.agent.grounded

\* absolute value
Abs(n) == IF n < 0 THEN -n ELSE n

MazeCells == (0 .. (width - 1)) \X (0 .. (height - 1))

\* the cells that are path
PathCells == {c \in MazeCells : maze[c[2]][c[1]] = 1}

\* two cells side by side or one above the other
Adjacent(a, b) ==
    \/ a[1] = b[1] /\ (a[2] = b[2] + 1 \/ b[2] = a[2] + 1)
    \/ a[2] = b[2] /\ (a[1] = b[1] + 1 \/ b[1] = a[1] + 1)

\* the path cells reachable from those of S by steps between adjacent path
\* cells
RECURSIVE ReachFrom(_)
ReachFrom(S) ==
    LET N == S \cup {c \in PathCells : \E b \in S : Adjacent(b, c)}
    IN  IF N = S THEN S ELSE ReachFrom(N)

\* the pairs of adjacent path cells
PathEdges == {e \in SUBSET PathCells :
                \E a \in e, b \in e : e = {a, b} /\ Adjacent(a, b)}

\* the path cells are connected and have no cycle: a tree
PathsFormTree ==
    /\ PathCells # {}
    /\ \A c \in PathCells : ReachFrom({c}) = PathCells
    /\ Cardinality(PathEdges) = Cardinality(PathCells) - 1

Terminal == events.win \/ events.fail # "None"

\* C12: win and fail are set independently of each other.  A step made in a
\* state whose last step reported win or fail moves the agent and runs the
\* timer like any other step, and its record has win whenever coins_collected
\* has reached coins_to_win and the fail its own conditions give, both at
\* once when both hold: win = true with fail = "timeout" is reached by
\* stepping on after the winning pickup until the timer expires.
C12_WinFailIndependent ==
    /\ [](steps > 0 =>
            /\ (st.coins_collected >= cfg.coins_to_win /\ st.time_left <= 0)
                 => (events.win /\ events.fail = "timeout")
            /\ (st.coins_collected >= cfg.coins_to_win /\ st.time_left > 0
                  /\ st.agent.y >= cfg.death_y * Sub)
                 => (events.win /\ events.fail = "fall")
            /\ (st.coins_collected < cfg.coins_to_win /\ st.time_left <= 0)
                 => (~events.win /\ events.fail = "timeout"))
    /\ [][(Terminal /\ StepTaken) =>
            /\ st'.agent = MoveAgent(cfg, st.agent, actions')
            /\ ~events'.pickup => st'.time_left = st.time_left - 1]_vars

\* the step on which the timer expires in an episode won earlier: the record
\* has win and timeout together
C12_Witness ==
    /\ events.win
    /\ events.fail = "timeout"
    /\ st.time_left = 0
    /\ nopick = cfg.timer_budget
    /\ steps > cfg.timer_budget

FrameWithR == \E quit \in BOOLEAN : Frame(quit, TRUE)

\* a pass of the main loop whose event queue held none
FrameWithoutR == \E quit \in BOOLEAN : Frame(quit, FALSE)

\* C14: while game_over is false every pass of the main loop calls step
\* exactly once; game_over is true exactly when the last step's record has
\* win or a fail, and then a message is shown, else none; while game_over is
\* true step is not called and nothing of the game changes, except in a pass
\* with an R key press, which resets with the same Config and seed and steps
\* the fresh state; an R key press while game_over is false leaves the pass
\* what it is without it; a record with win shows the WIN message, with or
\* without a fail.
C14_DriverGating ==
    /\ [](game_over <=> (steps > 0 /\ Terminal))
    /\ [](game_message = (IF ~game_over THEN "None"
                          ELSE IF events.win THEN "WIN! Press R to restart."
                          ELSE IF events.fail = "timeout"
                               THEN "FAIL (timeout). Press R to restart."
                          ELSE "FAIL (fell). Press R to restart."))
    /\ [][~game_over =>
            /\ steps' = steps + 1
            /\ st'.agent = MoveAgent(cfg, st.agent, actions')]_vars
    /\ [][game_over =>
            \/ UNCHANGED <<st, events, actions, rng, steps, game_over,
                           game_message>>
            \/ /\ FrameWithR
               /\ steps' = 1
               /\ st'.agent = MoveAgent(cfg, reset(cfg, seed).agent, actions')
               /\ st'.coins_collected <= 1]_vars
    /\ [][(~game_over /\ FrameWithR) => FrameWithoutR]_vars

\* the first step of an episode picked up the only coin needed with the
\* agent below the death line: win and fall in one record, WIN shown
C14_Witness ==
    /\ running
    /\ game_over
    /\ events.win
    /\ events.fail = "fall"
    /\ game_message = "WIN! Press R to restart."

\* the y of an agent standing on the floor: floor top minus agent height
FloorRestY == (320 - DefaultConfig.agent_size_h) * Sub

\* C15: with the default Config, after every step the agent's y is at most
\* 288 (floor top 320 minus agent height 32), hence above the death line
\* death_y = 410, and no step reports fail = "fall": the only fail a record
\* can carry is "timeout".
C15_NoFall ==
    (cfg = DefaultConfig /\ steps > 0) =>
      /\ st.agent.y <= FloorRestY
      /\ st.agent.y < cfg.death_y * Sub
      /\ events.fail # "fall"
      /\ events.fail \in {"None", "timeout"}

\* the agent 19 steps after it walked off the top of the middle platform (y
\* = 208), still in the air, less than a pixel above where the floor stops it
C15_Witness ==
    /\ cfg = DefaultConfig
    /\ ~st.agent.grounded
    /\ st.agent.vy = 19 * ((cfg.gravity * VSub) \div Hz)
    /\ st.agent.y = 208 * Sub + 190 * ((cfg.gravity * VSub) \div Hz)
    /\ st.agent.y > FloorRestY - Sub

\* C16: with the default Config, in the state every step returns the
\* agent's rectangle strictly overlaps none of the six platform rectangles:
\* the push-outs of the two collision passes, made platform by platform in
\* table order, never leave it inside a platform.
C16_NoPenetration ==
    (cfg = DefaultConfig /\ steps > 0) =>
      \A i \in PlatformIndices(cfg) :
        ~rects_intersect(st.agent.x, st.agent.y,
                         cfg.agent_size_w * Sub, cfg.agent_size_h * Sub,
                         PlatformAt(cfg, i)[1] * Sub, PlatformAt(cfg, i)[2] * Sub,
                         PlatformAt(cfg, i)[3] * Sub, PlatformAt(cfg, i)[4] * Sub)

\* the agent pushed out downward: stopped in the air with its top edge on
\* the bottom edge of a raised platform that its x range overlaps
C16_Witness ==
    /\ cfg = DefaultConfig
    /\ steps > 0
    /\ ~st.agent.grounded
    /\ st.agent.vy = 0
    /\ \E i \in 3 .. 5 :
         \E p \in {PlatformAt(cfg, i)} :
           /\ st.agent.y = (p[2] + p[4]) * Sub
           /\ st.agent.x < (p[1] + p[3]) * Sub
           /\ st.agent.x + cfg.agent_size_w * Sub > p[1] * Sub

\* the agent of the input state after the horizontal pass, gravity or jump,
\* and the vertical move (core.py:198-258), before the vertical collision
\* pass
BeforeVerticalPass(acts) ==
    GravityJumpMove(cfg, HorizontalPhase(cfg, st.agent, acts), acts)

\* C17: with the default Config, in every state from reset on, grounded =
\* true implies vy = 0 and y + agent_size_h is the top of a platform whose x
\* range overlaps the agent's; and a step returns grounded = true only if,
\* going into its vertical collision pass, the agent was moving down (vy > 0)
\* and overlapped a platform.  An agent that moves up, or that has no
\* platform under it any more, is returned with grounded = false.
C17_GroundedMeansResting ==
    /\ [](cfg = DefaultConfig =>
            (st.agent.grounded =>
               /\ st.agent.vy = 0
               /\ \E i \in PlatformIndices(cfg) :
                    /\ st.agent.y + cfg.agent_size_h * Sub
                         = PlatformAt(cfg, i)[2] * Sub
                    /\ st.agent.x
                         < (PlatformAt(cfg, i)[1] + PlatformAt(cfg, i)[3]) * Sub
                    /\ st.agent.x + cfg.agent_size_w * Sub
                         > PlatformAt(cfg, i)[1] * Sub))
    /\ [][(cfg = DefaultConfig /\ StepTaken /\ st'.agent.grounded) =>
            /\ BeforeVerticalPass(actions').vy > 0
            /\ \E i \in PlatformIndices(cfg) :
                 AgentHitsPlatform(cfg, BeforeVerticalPass(actions'),
                                   PlatformAt(cfg, i))]_vars
    /\ [][(cfg = DefaultConfig /\ StepTaken
             /\ BeforeVerticalPass(actions').vy <= 0) =>
            ~st'.agent.grounded]_vars

\* the agent one step after it walked, without jumping, off the top of the
\* middle platform: in the air, grounded = false, one step of gravity down
C17_Witness ==
    /\ cfg = DefaultConfig
    /\ ~HoldsJump(actions)
    /\ ~st.agent.grounded
    /\ st.agent.vy = (cfg.gravity * VSub) \div Hz
    /\ st.agent.y = 208 * Sub + ((cfg.gravity * VSub) \div Hz)
    /\ \/ st.agent.x >= 440 * Sub
       \/ st.agent.x + cfg.agent_size_w * Sub <= 200 * Sub

====
